---- MODULE Spec2Model ----
(***************************************************************************)
(* Measurement service: aiohttp handlers (app/handlers.py) in front of a   *)
(* PostgreSQL gateway (app/db.py).  The store (type table, parent table,   *)
(* per-type partitions) outlives the process; the process state is the     *)
(* Database object and the MeasurementRequestHandler built by init_app.    *)
(***************************************************************************)
EXTENDS Bags, FiniteSets, Integers, Sequences, TLC

VARIABLES
    tables,             \* names of the tables that exist in the store
    type_table,         \* rows of measurement_type: set of [id, name]
    partitions,         \* partition (by type name) -> [id, rows], rows a bag
    pool,               \* Database.pool: [created, min_size, max_size]
    measurement_types,  \* Database.measurement_types: name -> id
    measurements,       \* MeasurementRequestHandler.measurements (a list)
    started,            \* init_app returned: the routes are being served
    last,               \* the request being answered and its outcome
    submitted,          \* type name -> bag of the entries of POSTs answered 204
    v_data,             \* validate_measurement_data: the argument
    v_result,           \* validate_measurement_data: the outcome
    init_pc,            \* Database.init: the call it is at, "idle" outside
    init_names,         \* Database.init: its argument
    schema_log,         \* the schema statements the running init has executed
    prev_types,         \* the mapping of the preceding init, if for the same list
    discarded,          \* the number of rows the last drop_tables removed
    checked_out,        \* connections acquired from the pool and not released
    tasks               \* the coroutines in flight: task -> its position

\* the state of Database.init step by step, and of the pool under concurrent
\* tasks
initVars == <<init_pc, init_names, schema_log, prev_types, discarded>>
poolVars == <<checked_out, tasks>>

vars == <<tables, type_table, partitions, pool, measurement_types,
          measurements, started, last, submitted, v_data, v_result,
          initVars, poolVars>>

----------------------------------------------------------------------------
(* Bounds of the model *)

\* longest 'values' list of a POST body
MaxLen == 2
\* longest list of 'measurement' query parameters of a GET
MaxNames == 2
\* most rows the store holds over all partitions
MaxRows == 2
\* longest list of type names Database.init is given
MaxTypes == 2
\* request handlers that can be in flight at the same time
NumTasks == 4

----------------------------------------------------------------------------
(* Numbers.  Python integers are unbounded; an integer n is the pair       *)
(* <<hi, lo>> with n = hi * Base + lo and 0 <= lo < Base.                  *)

Base == 1024 * 1024 * 1024

BigLt(a, b) == a[1] < b[1] \/ (a[1] = b[1] /\ a[2] < b[2])
BigLeq(a, b) == a = b \/ BigLt(a, b)

\* column "time INT": a 32-bit signed integer
Int4Min == <<-2, 0>>
Int4Max == <<1, Base - 1>>
InInt4(n) == BigLeq(Int4Min, n) /\ BigLeq(n, Int4Max)

\* column "value FLOAT": an IEEE double, 53 bits of mantissa
Float8Mantissa == 53

BitLen(h) == CHOOSE b \in 1..30 : 2^(b-1) <= h /\ (b = 30 \/ h < 2^b)

\* the double nearest to the non-negative integer n (ties to even), as the
\* driver's float8 encoder converts a Python int
Round53(n) ==
    LET hi == n[1]
        lo == n[2]
    IN  IF hi < 2^(Float8Mantissa - 30) THEN n
        ELSE LET d    == BitLen(hi) - (Float8Mantissa - 30)
                 unit == 2^d
                 rem  == lo % unit
                 down == lo - rem
                 up   == \/ rem * 2 > unit
                         \/ rem * 2 = unit /\ (down \div unit) % 2 = 1
                 lo2  == IF up THEN down + unit ELSE down
             IN  IF lo2 = Base THEN <<hi + 1, 0>> ELSE <<hi, lo2>>

----------------------------------------------------------------------------
(* JSON values as request.json() yields them.  k is the Python type of the *)
(* value; n (and half, for n + 1/2) its numeric value.                     *)

JInt(hi, lo) == [k |-> "int", n |-> <<hi, lo>>, half |-> FALSE]
JFloat(hi, lo, half) == [k |-> "float", n |-> <<hi, lo>>, half |-> half]
JBool(b) == [k |-> "bool", n |-> <<0, IF b THEN 1 ELSE 0>>, half |-> FALSE]
JStr == [k |-> "str", n |-> <<0, 0>>, half |-> FALSE]
JNull == [k |-> "NoneType", n |-> <<0, 0>>, half |-> FALSE]

\* an element of 'values': a dict with the given keys, or another JSON value
Dict(keys, t, v) == [isdict |-> TRUE, keys |-> keys, time |-> t, value |-> v]
NonDict == [isdict |-> FALSE, keys |-> {}, time |-> JNull, value |-> JNull]

\* the 'values' field: a list, or a str or dict (iterable, yielding strings),
\* or a scalar (int, float, bool, None: not iterable)
VList(items) == [k |-> "list", items |-> items]
VStr(len) == [k |-> "str", items |-> [i \in 1..len |-> NonDict]]
VDict(len) == [k |-> "dict", items |-> [i \in 1..len |-> NonDict]]
VScalar == [k |-> "scalar", items |-> <<>>]

\* the request body: not JSON, a JSON object with or without 'values', or
\* another JSON value (list, string, number, null)
BodyMalformed == [k |-> "malformed", has_values |-> FALSE, values |-> VScalar]
BodyNonObject == [k |-> "nonobject", has_values |-> FALSE, values |-> VScalar]
BodyNoValues == [k |-> "object", has_values |-> FALSE, values |-> VScalar]
BodyValues(v) == [k |-> "object", has_values |-> TRUE, values |-> v]

----------------------------------------------------------------------------
(* validate_measurement_data *)

IsInstanceInt(x) == x.k \in {"int", "bool"}
IsInstanceIntFloat(x) == x.k \in {"int", "bool", "float"}

\* Variant of CheckEntry: the check of 'value' is left out
CheckEntryTimeOnly(entry) ==
    IF ~entry.isdict THEN "not_dict"
    ELSE IF "time" \notin entry.keys \/ "value" \notin entry.keys THEN "missing"
    ELSE IF ~IsInstanceInt(entry.time) THEN "time"
    ELSE "ok"

\* the check that fails for one entry, "ok" when none does
CheckEntry(entry) ==
    IF ~entry.isdict THEN "not_dict"
    ELSE IF "time" \notin entry.keys \/ "value" \notin entry.keys THEN "missing"
    ELSE IF ~IsInstanceInt(entry.time) THEN "time"
    ELSE IF ~IsInstanceIntFloat(entry.value) THEN "value"
    ELSE "ok"

\* Variant of validate_measurement_data: returns after the first entry
validate_first_entry_only(data) ==
    IF data.k = "scalar"
    THEN [exc |-> "TypeError", idx |-> -1, field |-> "none"]
    ELSE IF data.items = <<>> \/ CheckEntry(data.items[1]) = "ok"
    THEN [exc |-> "None", idx |-> -1, field |-> "none"]
    ELSE [exc |-> "ValidationError", idx |-> 0, field |-> CheckEntry(data.items[1])]

\* the outcome of validate_measurement_data(data): returns None, or raises
\* TypeError (data is not iterable) or ValidationError for the first entry
\* that fails a check (idx counts from 0)
validate_measurement_data(data) ==
    IF data.k = "scalar"
    THEN [exc |-> "TypeError", idx |-> -1, field |-> "none"]
    ELSE LET bad == {i \in 1..Len(data.items) : CheckEntry(data.items[i]) # "ok"}
         IN  IF bad = {}
             THEN [exc |-> "None", idx |-> -1, field |-> "none"]
             ELSE LET i == CHOOSE j \in bad : \A m \in bad : j <= m
                  IN  [exc |-> "ValidationError", idx |-> i - 1,
                       field |-> CheckEntry(data.items[i])]

----------------------------------------------------------------------------
(* Bags of rows *)

Range(s) == {s[i] : i \in DOMAIN s}

BagOfSeq(s) == [e \in Range(s) |-> Cardinality({i \in DOMAIN s : s[i] = e})]

RECURSIVE SumOver(_, _)
SumOver(B, S) ==
    IF S = {} THEN 0
    ELSE LET e == CHOOSE x \in S : TRUE IN B[e] + SumOver(B, S \ {e})

\* the bag of F(e) for the elements e of bag B
MapBag(F(_), B) ==
    [y \in {F(e) : e \in DOMAIN B} |-> SumOver(B, {e \in DOMAIN B : F(e) = y})]

TotalRows(parts) ==
    LET count[S \in SUBSET DOMAIN parts] ==
            IF S = {} THEN 0
            ELSE LET p == CHOOSE x \in S : TRUE
                 IN  BagCardinality(parts[p].rows) + count[S \ {p}]
    IN  count[DOMAIN parts]

----------------------------------------------------------------------------
(* The gateway: app/db.py *)

NoPartitions == [p \in {} |-> [id |-> 0, rows |-> EmptyBag]]
NoTypes == [name \in {} |-> 0]

\* Variant of TypeMapping: the ids start at 0
TypeMappingFromZero(measurement_names) ==
    [name \in Range(measurement_names) |->
        (CHOOSE i \in DOMAIN measurement_names :
            /\ measurement_names[i] = name
            /\ \A j \in DOMAIN measurement_names :
                   measurement_names[j] = name => j <= i) - 1]

\* {name: idx for idx, name in enumerate(measurement_names, start=1)}
TypeMapping(measurement_names) ==
    [name \in Range(measurement_names) |->
        CHOOSE i \in DOMAIN measurement_names :
            /\ measurement_names[i] = name
            /\ \A j \in DOMAIN measurement_names :
                   measurement_names[j] = name => j <= i]

\* asyncpg.create_pool(min_size=len(names), max_size=len(names) + 2)
create_pool(measurement_names) ==
    [min_size |-> Len(measurement_names), max_size |-> Len(measurement_names) + 2]

\* what the driver sends for one validated entry m: (m["time"], m["value"])
\* encoded for the columns "time INT" and "value FLOAT"
Float8Encode(x) ==
    [n |-> IF x.k = "float" THEN x.n ELSE Round53(x.n), half |-> x.half]
EncodeRow(m) == [time |-> m.time.n, value |-> Float8Encode(m.value)]

\* the partitions after the rows of items went to the partition bound to
\* measurement_type_id
AppendRows(measurement_type_id, items) ==
    LET rows == [i \in DOMAIN items |-> EncodeRow(items[i])]
    IN  [p \in DOMAIN partitions |->
            IF partitions[p].id = measurement_type_id
            THEN [partitions[p] EXCEPT !.rows = @ (+) BagOfSeq(rows)]
            ELSE partitions[p]]

\* the exception of building the argument list and of executemany, "None"
\* when the batch is written.  fault = "execute": the store fails the call.
ExecError(measurement_type_id, items, fault) ==
    IF \E i \in DOMAIN items : ~items[i].isdict THEN "TypeError"
    ELSE IF \E i \in DOMAIN items : ~({"time", "value"} \subseteq items[i].keys)
    THEN "KeyError"
    ELSE IF "measurement" \notin tables THEN "UndefinedTableError"
    ELSE IF fault = "execute" THEN "PostgresError"
    ELSE IF \E i \in DOMAIN items :
               \/ items[i].time.k \notin {"int", "bool"}
               \/ items[i].value.k \notin {"int", "bool", "float"}
               \/ ~InInt4(items[i].time.n)
    THEN "DataError"
    ELSE IF /\ items # <<>>
            /\ \A p \in DOMAIN partitions : partitions[p].id # measurement_type_id
    THEN "CheckViolationError"
    ELSE "None"

\* Variant of executemany: an empty argument list is an error
executemany_rejects_empty(measurement_type_id, items, fault) ==
    LET exc == IF items = <<>> THEN "ValueError"
               ELSE ExecError(measurement_type_id, items, fault)
    IN  [exc |-> exc,
         partitions |-> IF exc = "None" THEN AppendRows(measurement_type_id, items)
                        ELSE partitions]

\* conn.executemany("INSERT INTO measurement ... VALUES ($1, $2, $3)", rows):
\* all rows are written or none
executemany(measurement_type_id, items, fault) ==
    LET exc == ExecError(measurement_type_id, items, fault)
    IN  [exc |-> exc,
         partitions |-> IF exc = "None" THEN AppendRows(measurement_type_id, items)
                        ELSE partitions]

\* insert_batch_measurements_id under with_connection.  fault is where the
\* store fails: "none", "acquire" (pool.acquire raises, nothing to release)
\* or "execute"; an acquired connection is released on every path.
insert_batch_measurements_id(measurement_type_id, measurement_values, fault) ==
    IF fault = "acquire"
    THEN [exc |-> "PoolError", acquired |-> 0, released |-> 0,
          partitions |-> partitions]
    ELSE LET r == executemany(measurement_type_id, measurement_values.items, fault)
         IN  [exc |-> r.exc, acquired |-> 1, released |-> 1,
              partitions |-> r.partitions]

\* insert_batch_measurements_name: resolves the id, KeyError for a name that
\* is not in measurement_types
insert_batch_measurements_name(measurement_name, measurement_values, fault) ==
    IF measurement_name \notin DOMAIN measurement_types
    THEN [exc |-> "KeyError", acquired |-> 0, released |-> 0,
          partitions |-> partitions]
    ELSE insert_batch_measurements_id(measurement_types[measurement_name],
                                      measurement_values, fault)

\* Variant of InRange: the lower bound is exclusive
InRangeExclusive(row, time_from, time_to) ==
    BigLt(time_from, row.time) /\ BigLeq(row.time, time_to)

\* SELECT time, value FROM <partition> WHERE time >= $1 AND time <= $2
InRange(row, time_from, time_to) ==
    BigLeq(time_from, row.time) /\ BigLeq(row.time, time_to)

FetchRows(name, time_from, time_to) ==
    LET rows == partitions[name].rows
    IN  [row \in {x \in DOMAIN rows : InRange(x, time_from, time_to)} |-> rows[row]]

\* Variant of get_measurements: the answers come in reverse request order
get_measurements_reversed(measurement_names, time_from, time_to, fault) ==
    LET n == Len(measurement_names)
    IN  [exc |-> IF fault = "acquire" THEN "PoolError"
                 ELSE IF fault = "execute" /\ n > 0 THEN "PostgresError"
                 ELSE IF ~InInt4(time_from) \/ ~InInt4(time_to) THEN "DataError"
                 ELSE "None",
         acquired |-> IF fault = "acquire" THEN 0 ELSE 1,
         released |-> IF fault = "acquire" THEN 0 ELSE 1,
         result |->
            IF fault # "none" \/ ~InInt4(time_from) \/ ~InInt4(time_to) THEN <<>>
            ELSE [i \in 1..n |->
                    [name |-> measurement_names[n + 1 - i],
                     rows |-> FetchRows(measurement_names[n + 1 - i],
                                        time_from, time_to)]]]

\* get_measurements under with_connection: one connection, one fetch per
\* requested name, in request order
get_measurements(measurement_names, time_from, time_to, fault) ==
    LET exc == IF fault = "acquire" THEN "PoolError"
               ELSE IF measurement_names = <<>> THEN "None"
               ELSE IF measurement_names[1] \notin DOMAIN partitions
                    THEN "UndefinedTableError"
               ELSE IF fault = "execute" THEN "PostgresError"
               ELSE IF ~InInt4(time_from) \/ ~InInt4(time_to) THEN "DataError"
               ELSE IF \E i \in DOMAIN measurement_names :
                          measurement_names[i] \notin DOMAIN partitions
                    THEN "UndefinedTableError"
               ELSE "None"
    IN  [exc |-> exc,
         acquired |-> IF fault = "acquire" THEN 0 ELSE 1,
         released |-> IF fault = "acquire" THEN 0 ELSE 1,
         result |->
            IF exc # "None" THEN <<>>
            ELSE [i \in DOMAIN measurement_names |->
                    [name |-> measurement_names[i],
                     rows |-> FetchRows(measurement_names[i], time_from, time_to)]]]

----------------------------------------------------------------------------
(* The handlers: app/handlers.py *)

\* the JSON error bodies, {"error": msg} with the names msg is formatted with
NoError == [msg |-> "", arg |-> <<>>]
ErrUnknownType(t) == [msg |-> "Unknown measurement type {}.", arg |-> <<t>>]
ErrInvalidJson == [msg |-> "Invalid JSON or missing 'values' field.", arg |-> <<>>]
ErrInvalidTime == [msg |-> "Invalid 'from_time' or 'to_time'.", arg |-> <<>>]
ErrTimeOrder == [msg |-> "'from_time' has to be smaller than 'to_time'.", arg |-> <<>>]
ErrUnknownTypes(ts) == [msg |-> "Unknown measurement type(s): {}", arg |-> ts]
ErrNoMeasurement == [msg |-> "At least one 'measurement' must be provided.", arg |-> <<>>]
\* str(e) of the exception the gateway raised
\* Variant of ErrFault: the message of the exception is not passed on
ErrFaultMasked(exc) == [msg |-> "Internal Server Error", arg |-> <<>>]
ErrFault(exc) == [msg |-> exc, arg |-> <<>>]
\* an exception no handler catches: the server answers 500 itself
ErrUnhandled == [msg |-> "500 Internal Server Error", arg |-> <<>>]

\* Variant of KnownType: the membership test is left out
KnownTypeUnchecked(measurement_type) == TRUE

\* measurement_type in self.measurements
KnownType(measurement_type) == measurement_type \in Range(measurements)

\* the except clause of the body parsing: the answer to JSONDecodeError,
\* KeyError and ValidationError (v is the validation outcome, if any)
PostParseError(v) == ErrInvalidJson

\* handle_post_measurements: the response and what it did to the gateway
handle_post_measurements(measurement_type, body, fault) ==
    LET v == validate_measurement_data(body.values)
        none == [idx |-> -1, field |-> "none"]
        Reply(status, error, exc, val) ==
            [status |-> status, error |-> error, exc |-> exc, calls |-> <<>>,
             acquired |-> 0, released |-> 0, partitions |-> partitions,
             validation |-> val, result |-> <<>>]
    IN  IF ~KnownType(measurement_type)
        THEN Reply(400, ErrUnknownType(measurement_type), "None", none)
        ELSE IF body.k = "malformed"
        THEN Reply(400, PostParseError(none), "None", none)
        ELSE IF body.k = "nonobject"
        THEN Reply(500, ErrUnhandled, "TypeError", none)
        ELSE IF ~body.has_values
        THEN Reply(400, PostParseError(none), "None", none)
        ELSE IF v.exc = "TypeError"
        THEN Reply(500, ErrUnhandled, "TypeError", none)
        ELSE IF v.exc = "ValidationError"
        THEN Reply(400, PostParseError(v), "None", [idx |-> v.idx, field |-> v.field])
        ELSE LET r == insert_batch_measurements_name(measurement_type, body.values, fault)
             IN  [status |-> IF r.exc = "None" THEN 204 ELSE 500,
                  error |-> IF r.exc = "None" THEN NoError ELSE ErrFault(r.exc),
                  exc |-> "None",
                  calls |-> <<"insert_batch_measurements_name">>,
                  acquired |-> r.acquired, released |-> r.released,
                  partitions |-> r.partitions,
                  validation |-> none, result |-> <<>>]

\* a query parameter: absent, a string int() rejects, or one it parses to n
ParamMissing == [k |-> "missing", n |-> <<0, 0>>]
ParamText == [k |-> "text", n |-> <<0, 0>>]
ParamInt(hi, lo) == [k |-> "int", n |-> <<hi, lo>>]

\* Variant of unknown_measurements: the whole request is reported
unknown_measurements_all(names) ==
    IF \E i \in DOMAIN names : ~KnownType(names[i]) THEN names ELSE <<>>

\* [meas for meas in measurements if meas not in self.measurements]
unknown_measurements(names) == SelectSeq(names, LAMBDA m : ~KnownType(m))

\* handle_get_measurements.  names is the list of 'measurement' parameters;
\* query.getall raises KeyError when there is none.
handle_get_measurements(names, from_time, to_time, fault) ==
    LET Reply(status, error, exc) ==
            [status |-> status, error |-> error, exc |-> exc, calls |-> <<>>,
             acquired |-> 0, released |-> 0, partitions |-> partitions,
             validation |-> [idx |-> -1, field |-> "none"], result |-> <<>>]
    IN  IF names = <<>>
        THEN Reply(500, ErrUnhandled, "KeyError")
        ELSE IF from_time.k # "int" \/ to_time.k # "int"
        THEN Reply(400, ErrInvalidTime, "None")
        ELSE IF ~BigLt(from_time.n, to_time.n)
        THEN Reply(400, ErrTimeOrder, "None")
        ELSE IF unknown_measurements(names) # <<>>
        THEN Reply(400, ErrUnknownTypes(unknown_measurements(names)), "None")
        ELSE IF names = <<>>
        THEN Reply(400, ErrNoMeasurement, "None")
        ELSE LET r == get_measurements(names, from_time.n, to_time.n, fault)
             IN  [status |-> IF r.exc = "None" THEN 200 ELSE 500,
                  error |-> IF r.exc = "None" THEN NoError ELSE ErrFault(r.exc),
                  exc |-> "None",
                  calls |-> <<"get_measurements">>,
                  acquired |-> r.acquired, released |-> r.released,
                  partitions |-> partitions,
                  validation |-> [idx |-> -1, field |-> "none"],
                  result |-> r.result]

----------------------------------------------------------------------------
(* Inputs *)

ConfigNames == {"flow", "pressure"}
Names == ConfigNames \cup {"temperature"}

SeqsUpTo(S, lo, hi) == UNION {[1..k -> S] : k \in lo..hi}

\* the type lists the process is started with (one with a duplicate)
StartupLists == {<<"flow", "pressure">>, <<"pressure", "flow">>, <<"pressure">>,
                 <<"flow", "flow">>}

Both == {"time", "value"}
\* {"time": 100, "value": 23.5}
EntryFloat == Dict(Both, JInt(0, 100), JFloat(0, 23, TRUE))
\* {"time": 500, "value": 9007199254740993}: 2^53 + 1
EntryBigValue == Dict(Both, JInt(0, 500), JInt(2^(Float8Mantissa - 30), 1))
\* {"time": 2147483648, "value": 25}: 2^31
EntryBigTime == Dict(Both, JInt(2, 0), JInt(0, 25))
\* {"time": true, "value": 25, "unit": "bar"}
EntryLenient == Dict(Both \cup {"extra"}, JBool(TRUE), JInt(0, 25))
\* {"time": 100, "value": "a"}
EntryBadValue == Dict(Both, JInt(0, 100), JStr)

Entries == {EntryFloat, EntryBigValue, EntryBigTime, EntryLenient, EntryBadValue}

ValuesFields ==
    {VScalar, VStr(0), VStr(1), VDict(0)}
        \cup {VList(s) : s \in SeqsUpTo(Entries, 0, MaxLen)}

Bodies ==
    {BodyMalformed, BodyNonObject, BodyNoValues}
        \cup {BodyValues(v) : v \in ValuesFields}

\* from_time and to_time: absent or not a number, ranges over the stored
\* times 1, 100 and 500, empty and inverted ranges, and to_time = 2^31
TimePairs ==
    {<<ParamMissing, ParamInt(0, 100)>>, <<ParamInt(0, 0), ParamMissing>>,
     <<ParamText, ParamInt(0, 100)>>, <<ParamInt(0, 0), ParamText>>,
     <<ParamInt(0, 0), ParamInt(0, 100)>>, <<ParamInt(0, 0), ParamInt(0, 500)>>,
     <<ParamInt(0, 100), ParamInt(0, 500)>>, <<ParamInt(0, 100), ParamInt(0, 100)>>,
     <<ParamInt(0, 500), ParamInt(0, 100)>>, <<ParamInt(0, 0), ParamInt(2, 0)>>}

Faults == {"none", "acquire", "execute"}

----------------------------------------------------------------------------
(* The state machine *)

NoPool == [created |-> FALSE, min_size |-> 0, max_size |-> 0]
NoValidation == [idx |-> -1, field |-> "none"]

NoRequest ==
    [op |-> "none", type |-> "", body |-> BodyMalformed, names |-> <<>>,
     from_time |-> ParamMissing, to_time |-> ParamMissing, fault |-> "none",
     status |-> 0, error |-> NoError, exc |-> "None", calls |-> <<>>,
     acquired |-> 0, released |-> 0, validation |-> NoValidation,
     result |-> <<>>, before |-> NoPartitions]

Pending == [exc |-> "pending", idx |-> -1, field |-> "none"]

NoPrevious == [same |-> FALSE, types |-> NoTypes]

\* no init is running step by step, no task is in flight
Quiet ==
    /\ init_pc = "idle"
    /\ init_names = <<>>
    /\ schema_log = <<>>
    /\ prev_types = NoPrevious
    /\ discarded = 0
    /\ checked_out = 0
    /\ tasks = <<>>

\* Database() and an empty store; nothing is served before init_app returns
Init ==
    /\ tables = {}
    /\ type_table = {}
    /\ partitions = NoPartitions
    /\ pool = NoPool
    /\ measurement_types = NoTypes
    /\ measurements = <<>>
    /\ started = FALSE
    /\ last = NoRequest
    /\ submitted = [t \in {} |-> EmptyBag]
    /\ v_data = VList(<<>>)
    /\ v_result = Pending
    /\ Quiet

\* what init_tables builds in a store whose tables were dropped: the mapping,
\* the type table and its rows, the parent table, one partition per name
init_tables(measurement_names) ==
    LET mt == TypeMapping(measurement_names)
    IN  [measurement_types |-> mt,
         tables |-> {"measurement_type", "measurement"},
         type_table |-> {[id |-> mt[name], name |-> name] : name \in DOMAIN mt},
         partitions |-> [name \in DOMAIN mt |-> [id |-> mt[name], rows |-> EmptyBag]]]

\* init_app in a new process: Database(), database.init(names) (create_pool,
\* drop_tables, init_tables), then the handler.  fault is the call that
\* raises: "pool", "drop", "init" (each before it changed the store) or "none".
\* drop_tables removes both tables and, by CASCADE, every partition.
Startup(measurement_names, fault) ==
    LET dropped == fault \in {"init", "none"}
        t == init_tables(measurement_names)
    IN  /\ last.op = "none"
        /\ pool' = IF fault = "pool" THEN NoPool ELSE create_pool(measurement_names)
        /\ tables' = IF fault = "none" THEN t.tables
                     ELSE IF dropped THEN {} ELSE tables
        /\ type_table' = IF fault = "none" THEN t.type_table
                         ELSE IF dropped THEN {} ELSE type_table
        /\ partitions' = IF fault = "none" THEN t.partitions
                         ELSE IF dropped THEN NoPartitions ELSE partitions
        /\ measurement_types' = IF fault = "none" THEN t.measurement_types ELSE NoTypes
        /\ measurements' = IF fault = "none" THEN measurement_names ELSE <<>>
        /\ started' = (fault = "none")
        /\ submitted' = IF fault = "none"
                        THEN [n \in Range(measurement_names) |-> EmptyBag]
                        ELSE IF dropped THEN [n \in {} |-> EmptyBag] ELSE submitted
        /\ last' = [NoRequest EXCEPT !.op = "startup", !.names = measurement_names,
                                     !.fault = fault, !.before = partitions]
        /\ UNCHANGED <<v_data, v_result, initVars, poolVars>>

\* POST /api/v1/measurements/{measurement_type}
Post(measurement_type, body, fault) ==
    /\ started
    /\ last.op = "none"
    /\ LET r == handle_post_measurements(measurement_type, body, fault)
       IN  /\ r.calls = <<>> => fault = "none"
           /\ TotalRows(r.partitions) <= MaxRows
           /\ partitions' = r.partitions
           /\ submitted' =
                IF r.status = 204
                THEN [submitted EXCEPT ![measurement_type] =
                                           @ (+) BagOfSeq(body.values.items)]
                ELSE submitted
           /\ last' = [op |-> "POST", type |-> measurement_type, body |-> body,
                       names |-> <<>>, from_time |-> ParamMissing,
                       to_time |-> ParamMissing, fault |-> fault,
                       status |-> r.status, error |-> r.error, exc |-> r.exc,
                       calls |-> r.calls, acquired |-> r.acquired,
                       released |-> r.released, validation |-> r.validation,
                       result |-> r.result, before |-> partitions]
    /\ UNCHANGED <<tables, type_table, pool, measurement_types, measurements,
                   started, v_data, v_result, initVars, poolVars>>

\* GET /api/v1/measurements?measurement=..&from_time=..&to_time=..
Get(names, from_time, to_time, fault) ==
    /\ started
    /\ last.op = "none"
    /\ LET r == handle_get_measurements(names, from_time, to_time, fault)
       IN  /\ r.calls = <<>> => fault = "none"
           /\ last' = [op |-> "GET", type |-> "", body |-> BodyMalformed,
                       names |-> names, from_time |-> from_time,
                       to_time |-> to_time, fault |-> fault,
                       status |-> r.status, error |-> r.error, exc |-> r.exc,
                       calls |-> r.calls, acquired |-> r.acquired,
                       released |-> r.released, validation |-> r.validation,
                       result |-> r.result, before |-> partitions]
    /\ UNCHANGED <<tables, type_table, partitions, pool, measurement_types,
                   measurements, started, submitted, v_data, v_result,
                   initVars, poolVars>>

\* the response has been sent (or the failed start logged); requests are
\* answered one after the other
Deliver ==
    /\ last.op # "none"
    /\ last' = NoRequest
    /\ UNCHANGED <<tables, type_table, partitions, pool, measurement_types,
                   measurements, started, submitted, v_data, v_result,
                   initVars, poolVars>>

Next ==
    \/ \E L \in StartupLists, f \in {"none", "pool", "drop", "init"} : Startup(L, f)
    \/ \E t \in Names, b \in Bodies, f \in Faults : Post(t, b, f)
    \/ \E ns \in SeqsUpTo(Names, 0, MaxNames), tp \in TimePairs, f \in Faults :
          Get(ns, tp[1], tp[2], f)
    \/ Deliver

Spec == Init /\ [][Next]_vars

----------------------------------------------------------------------------
(* validate_measurement_data on its own: every argument, then the call *)

TimeKinds == {JInt(0, 100), JBool(TRUE), JStr, JFloat(0, 1, TRUE)}
ValueKinds == {JInt(0, 25), JFloat(0, 23, TRUE), JBool(FALSE), JStr}

ValidateEntries ==
    {Dict(ks, t, v) : ks \in {Both, Both \cup {"extra"}}, t \in TimeKinds,
                      v \in ValueKinds}
        \cup {Dict({"value"}, JNull, JInt(0, 25)), Dict({"time"}, JInt(0, 100), JNull),
              Dict({}, JNull, JNull), Dict({"time", "extra"}, JInt(0, 100), JNull),
              NonDict}

ValidateInputs ==
    {VScalar, VStr(0), VStr(1), VDict(0)}
        \cup {VList(s) : s \in SeqsUpTo(ValidateEntries, 0, MaxLen)}

InitValidate ==
    /\ tables = {}
    /\ type_table = {}
    /\ partitions = NoPartitions
    /\ pool = NoPool
    /\ measurement_types = NoTypes
    /\ measurements = <<>>
    /\ started = FALSE
    /\ last = NoRequest
    /\ submitted = [t \in {} |-> EmptyBag]
    /\ v_data \in ValidateInputs
    /\ v_result = Pending
    /\ Quiet

Validate ==
    /\ v_result = Pending
    /\ v_result' = validate_measurement_data(v_data)
    /\ UNCHANGED <<tables, type_table, partitions, pool, measurement_types,
                   measurements, started, last, submitted, v_data,
                   initVars, poolVars>>

SpecValidate == InitValidate /\ [][Validate]_vars

----------------------------------------------------------------------------
(* Database.init call by call.  Each await of init, drop_tables and        *)
(* init_tables is one step, and each of them can raise, which ends init    *)
(* and with it init_app.                                                   *)

InitLists == SeqsUpTo(Names, 1, MaxTypes)

\* the statements of drop_tables and init_tables in the order of the code
SchemaOrder ==
    <<"drop_tables", "create_type_table", "populate", "create_parent",
      "create_partitions">>

\* Variant of drop_tables: the partitions survive the drop
drop_tables_keeps_partitions ==
    [tables |-> {}, type_table |-> {}, partitions |-> partitions]

\* DROP TABLE IF EXISTS measurement CASCADE; DROP TABLE IF EXISTS
\* measurement_type CASCADE: the parent goes with its partitions
drop_tables ==
    [tables |-> tables \ {"measurement", "measurement_type"},
     type_table |-> {},
     partitions |-> NoPartitions]

\* INSERT INTO measurement_type (id, name) .. ON CONFLICT (name) DO NOTHING,
\* for every item of self.measurement_types.  A taken id under another name
\* violates the primary key.
populate_types(mt) ==
    LET taken(name) == \E row \in type_table : row.name = name
        clash == \E row \in type_table : \E name \in DOMAIN mt :
                     row.id = mt[name] /\ row.name # name
    IN  [exc |-> IF clash THEN "UniqueViolationError" ELSE "None",
         type_table |->
             IF clash THEN type_table
             ELSE type_table \cup {[id |-> mt[name], name |-> name] :
                                       name \in {n \in DOMAIN mt : ~taken(n)}}]

\* CREATE TABLE measurement_{name}_partition PARTITION OF measurement FOR
\* VALUES IN (id), for every item of self.measurement_types; no IF NOT
\* EXISTS, and a value bound to a partition cannot be bound to a second one
create_partitions(mt) ==
    IF \E name \in DOMAIN mt : name \in DOMAIN partitions
    THEN [exc |-> "DuplicateTableError", partitions |-> partitions]
    ELSE IF \E name \in DOMAIN mt : \E p \in DOMAIN partitions :
                partitions[p].id = mt[name]
    THEN [exc |-> "InvalidObjectDefinitionError", partitions |-> partitions]
    ELSE [exc |-> "None",
          partitions |-> [name \in DOMAIN partitions \cup DOMAIN mt |->
                             IF name \in DOMAIN mt
                             THEN [id |-> mt[name], rows |-> EmptyBag]
                             ELSE partitions[name]]]

\* a new process: Database() and database.init(measurement_names) up to the
\* first await
InitBegin(measurement_names) ==
    /\ init_pc = "idle"
    /\ init_pc' = "create_pool"
    /\ init_names' = measurement_names
    /\ schema_log' = <<>>
    /\ prev_types' = IF started /\ measurements = measurement_names
                     THEN [same |-> TRUE, types |-> measurement_types]
                     ELSE NoPrevious
    /\ pool' = NoPool
    /\ measurement_types' = NoTypes
    /\ measurements' = <<>>
    /\ started' = FALSE
    /\ UNCHANGED <<tables, type_table, partitions, last, submitted, v_data,
                   v_result, discarded, poolVars>>

InitCreatePool ==
    /\ init_pc = "create_pool"
    /\ init_pc' = "drop_tables"
    /\ pool' = create_pool(init_names)
    /\ UNCHANGED <<tables, type_table, partitions, measurement_types,
                   measurements, started, last, submitted, v_data, v_result,
                   init_names, schema_log, prev_types, discarded, poolVars>>

InitDropTables ==
    /\ init_pc = "drop_tables"
    /\ init_pc' = "create_type_table"
    /\ tables' = drop_tables.tables
    /\ type_table' = drop_tables.type_table
    /\ partitions' = drop_tables.partitions
    /\ discarded' = TotalRows(partitions)
    /\ schema_log' = Append(schema_log, "drop_tables")
    /\ submitted' = [n \in {} |-> EmptyBag]
    /\ UNCHANGED <<pool, measurement_types, measurements, started, last,
                   v_data, v_result, init_names, prev_types, poolVars>>

\* CREATE TABLE IF NOT EXISTS measurement_type, then the mapping is built
InitCreateTypeTable ==
    /\ init_pc = "create_type_table"
    /\ init_pc' = "populate"
    /\ tables' = tables \cup {"measurement_type"}
    /\ measurement_types' = TypeMapping(init_names)
    /\ schema_log' = Append(schema_log, "create_type_table")
    /\ UNCHANGED <<type_table, partitions, pool, measurements, started, last,
                   submitted, v_data, v_result, init_names, prev_types,
                   discarded, poolVars>>

InitPopulate ==
    LET r == populate_types(measurement_types)
    IN  /\ init_pc = "populate"
        /\ init_pc' = IF r.exc = "None" THEN "create_parent" ELSE "idle"
        /\ type_table' = r.type_table
        /\ schema_log' = Append(schema_log, "populate")
        /\ UNCHANGED <<tables, partitions, pool, measurement_types,
                       measurements, started, last, submitted, v_data,
                       v_result, init_names, prev_types, discarded, poolVars>>

\* CREATE TABLE IF NOT EXISTS measurement .. PARTITION BY LIST
InitCreateParent ==
    /\ init_pc = "create_parent"
    /\ init_pc' = "create_partitions"
    /\ tables' = tables \cup {"measurement"}
    /\ schema_log' = Append(schema_log, "create_parent")
    /\ UNCHANGED <<type_table, partitions, pool, measurement_types,
                   measurements, started, last, submitted, v_data, v_result,
                   init_names, prev_types, discarded, poolVars>>

\* the partitions are created and init returns; init_app builds the handler
\* from the same list and the server starts
InitCreatePartitions ==
    LET r == create_partitions(measurement_types)
    IN  /\ init_pc = "create_partitions"
        /\ init_pc' = "idle"
        /\ partitions' = r.partitions
        /\ schema_log' = Append(schema_log, "create_partitions")
        /\ started' = (r.exc = "None")
        /\ measurements' = IF r.exc = "None" THEN init_names ELSE <<>>
        /\ submitted' = [n \in Range(init_names) |-> EmptyBag]
        /\ UNCHANGED <<tables, type_table, pool, measurement_types, last,
                       v_data, v_result, init_names, prev_types, discarded,
                       poolVars>>

\* the call init is at raises (the store is down, a statement fails): the
\* exception leaves init and init_app, nothing after it runs
InitFail ==
    /\ init_pc \notin {"idle"}
    /\ init_pc' = "idle"
    /\ UNCHANGED <<tables, type_table, partitions, pool, measurement_types,
                   measurements, started, last, submitted, v_data, v_result,
                   init_names, schema_log, prev_types, discarded, poolVars>>

\* a batch of one entry is written while the server runs
InitInsert(measurement_name, entry) ==
    LET r == insert_batch_measurements_name(measurement_name,
                                            VList(<<entry>>), "none")
    IN  /\ started
        /\ init_pc = "idle"
        /\ measurement_name \in Range(measurements)
        /\ r.exc = "None"
        /\ TotalRows(r.partitions) <= MaxRows
        /\ partitions' = r.partitions
        /\ submitted' = [submitted EXCEPT ![measurement_name] =
                                              @ (+) BagOfSeq(<<entry>>)]
        /\ UNCHANGED <<tables, type_table, pool, measurement_types,
                       measurements, started, last, v_data, v_result,
                       initVars, poolVars>>

NextInit ==
    \/ \E names \in InitLists : InitBegin(names)
    \/ InitCreatePool
    \/ InitDropTables
    \/ InitCreateTypeTable
    \/ InitPopulate
    \/ InitCreateParent
    \/ InitCreatePartitions
    \/ InitFail
    \/ \E t \in Names : InitInsert(t, EntryFloat)

SpecInit == Init /\ [][NextInit]_vars

----------------------------------------------------------------------------
(* The gateway under concurrent coroutines.  Task 0 is init_app, which     *)
(* runs drop_tables and init_tables before the server accepts requests;    *)
(* tasks 1..NumTasks are request handlers inside their one gateway call.   *)
(* A step is what a coroutine does between two awaits of with_connection:  *)
(* pool.acquire returns or raises, a statement of the body returns or      *)
(* raises, pool.release returns.                                           *)

Tasks == 0..NumTasks
Handlers == 1..NumTasks

IdleTask == [op |-> "none", pc |-> "idle", held |-> 0, acquired |-> 0,
             type |-> "", scan |-> 0, snap |-> 0]

\* the lists the server is started with: one type, so that max_size is 3,
\* and two types, so that a query has two scans
ConcLists == {<<"flow">>, <<"flow", "pressure">>}

\* Variant of Needed: get_measurements acquires a connection per scan while
\* it holds the one of the wrapper
NeededNested(op) == IF op = "get_measurements" THEN 2 ELSE 1

\* the connections a gateway call holds when its body runs: each of
\* drop_tables, init_tables, insert_batch_measurements_id and get_measurements
\* is wrapped once, and none of them calls another wrapped method
Needed(op) == 1

\* Variant of pool_release: the connection is not given back
pool_release_skipped(count) == count

\* self.pool.release(conn)
pool_release(count) == count - 1

\* Variant of fetch_next: after a scan that is not the last the connection is
\* asked for again
fetch_reacquire(task, rows, scans) ==
    IF task.scan = scans
    THEN [task EXCEPT !.scan = 0, !.snap = 0, !.pc = "release"]
    ELSE [task EXCEPT !.scan = @ + 1, !.snap = rows, !.pc = "acquire"]

\* one iteration of the loop of get_measurements: conn.fetch for the name at
\* position scan, on the connection of the wrapper; after the last one the
\* wrapper's finally runs.  rows: the rows the store holds at this fetch
fetch_next(task, rows, scans) ==
    IF task.scan = scans
    THEN [task EXCEPT !.scan = 0, !.snap = 0, !.pc = "release"]
    ELSE [task EXCEPT !.scan = @ + 1, !.snap = rows, !.pc = "body"]

\* init has created the pool for one of the lists and is about to call
\* drop_tables
InitPool(lists) ==
    /\ tables = {}
    /\ type_table = {}
    /\ partitions = NoPartitions
    /\ \E names \in lists :
          /\ pool = create_pool(names)
          /\ init_names = names
    /\ measurement_types = NoTypes
    /\ measurements = <<>>
    /\ started = FALSE
    /\ last = NoRequest
    /\ submitted = [t \in {} |-> EmptyBag]
    /\ v_data = VList(<<>>)
    /\ v_result = Pending
    /\ init_pc = "drop_tables"
    /\ schema_log = <<>>
    /\ prev_types = NoPrevious
    /\ discarded = 0
    /\ checked_out = 0
    /\ tasks = [t \in Tasks |-> IdleTask]

InitConc == InitPool(ConcLists)

\* the smallest pool: one type, max_size 3, fewer connections than handlers
InitContended == InitPool({<<"flow">>})

\* what no step of a task changes
Untouched ==
    UNCHANGED <<pool, init_names, last, submitted, v_data, v_result,
                schema_log, prev_types, discarded>>

Enter(t, op, type) ==
    tasks' = [tasks EXCEPT ![t] = [IdleTask EXCEPT !.op = op, !.pc = "acquire",
                                                  !.type = type]]

\* init_app calls the next of drop_tables and init_tables
CallInit ==
    /\ init_pc \in {"drop_tables", "init_tables"}
    /\ tasks[0].pc = "idle"
    /\ Enter(0, init_pc, "")
    /\ UNCHANGED <<tables, type_table, partitions, measurement_types,
                   measurements, started, init_pc, checked_out>>
    /\ Untouched

\* a POST handler calls insert_batch_measurements_name, which resolves the id
\* and calls insert_batch_measurements_id; the batch is one entry
CallInsert(t, measurement_name) ==
    /\ started
    /\ tasks[t].pc = "idle"
    /\ measurement_name \in DOMAIN measurement_types
    /\ TotalRows(partitions)
          + Cardinality({u \in Handlers :
                            tasks[u].op = "insert_batch_measurements_id"})
            < MaxRows
    /\ Enter(t, "insert_batch_measurements_id", measurement_name)
    /\ UNCHANGED <<tables, type_table, partitions, measurement_types,
                   measurements, started, init_pc, checked_out>>
    /\ Untouched

\* a GET handler calls get_measurements for the configured names
CallQuery(t) ==
    /\ started
    /\ tasks[t].pc = "idle"
    /\ Enter(t, "get_measurements", "")
    /\ UNCHANGED <<tables, type_table, partitions, measurement_types,
                   measurements, started, init_pc, checked_out>>
    /\ Untouched

\* conn = await self.pool.acquire() returns: a connection is free or the pool
\* is below max_size
Acquire(t) ==
    /\ tasks[t].pc = "acquire"
    /\ checked_out < pool.max_size
    /\ checked_out' = checked_out + 1
    /\ tasks' = [tasks EXCEPT ![t].held = @ + 1, ![t].acquired = @ + 1,
                              ![t].scan = IF @ = 0 THEN 1 ELSE @,
                              ![t].pc = IF tasks[t].held + 1 >= Needed(tasks[t].op)
                                        THEN "body" ELSE "acquire"]
    /\ UNCHANGED <<tables, type_table, partitions, measurement_types,
                   measurements, started, init_pc>>
    /\ Untouched

\* the step after the wrapper has returned or raised.  A handler answers,
\* 500 if the wrapper raised.  init_app goes on with init_tables or starts
\* the server; if the wrapper raised (exc, or init_pc = "raised" when the
\* body did) it ends with the exception and the process is started again.
Leave(t, exc) ==
    LET failed == exc \/ init_pc = "raised"
    IN  /\ tasks' = [tasks EXCEPT ![t] = IdleTask]
        /\ init_pc' = IF t # 0 THEN init_pc
                      ELSE IF failed THEN "drop_tables"
                      ELSE IF init_pc = "drop_tables" THEN "init_tables"
                      ELSE "idle"
        /\ started' = IF t = 0 THEN (~failed /\ init_pc = "init_tables")
                      ELSE started
        /\ measurements' = IF t = 0 /\ ~failed /\ init_pc = "init_tables"
                           THEN init_names ELSE measurements

\* pool.acquire raises: conn is still None, finally releases nothing
AcquireFail(t) ==
    /\ tasks[t].pc = "acquire"
    /\ IF tasks[t].held = 0
       THEN Leave(t, TRUE)
       ELSE /\ tasks' = [tasks EXCEPT ![t].pc = "release"]
            /\ init_pc' = IF t = 0 THEN "raised" ELSE init_pc
            /\ UNCHANGED <<started, measurements>>
    /\ UNCHANGED <<tables, type_table, partitions, measurement_types, checked_out>>
    /\ Untouched

BodyDropTables ==
    /\ tasks[0].pc = "body"
    /\ tasks[0].op = "drop_tables"
    /\ tables' = drop_tables.tables
    /\ type_table' = drop_tables.type_table
    /\ partitions' = drop_tables.partitions
    /\ tasks' = [tasks EXCEPT ![0].pc = "release"]
    /\ UNCHANGED <<measurement_types, measurements, started, init_pc, checked_out>>
    /\ Untouched

BodyInitTables ==
    LET r == init_tables(init_names)
    IN  /\ tasks[0].pc = "body"
        /\ tasks[0].op = "init_tables"
        /\ tables' = r.tables
        /\ type_table' = r.type_table
        /\ partitions' = r.partitions
        /\ measurement_types' = r.measurement_types
        /\ tasks' = [tasks EXCEPT ![0].pc = "release"]
        /\ UNCHANGED <<measurements, started, init_pc, checked_out>>
        /\ Untouched

\* conn.executemany of insert_batch_measurements_id
BodyInsert(t) ==
    LET r == executemany(measurement_types[tasks[t].type], <<EntryFloat>>, "none")
    IN  /\ tasks[t].pc = "body"
        /\ tasks[t].op = "insert_batch_measurements_id"
        /\ partitions' = r.partitions
        /\ tasks' = [tasks EXCEPT ![t].pc = "release"]
        /\ UNCHANGED <<tables, type_table, measurement_types, measurements,
                       started, init_pc, checked_out>>
        /\ Untouched

\* one conn.fetch of get_measurements
BodyFetch(t) ==
    /\ tasks[t].pc = "body"
    /\ tasks[t].op = "get_measurements"
    /\ tasks' = [tasks EXCEPT ![t] = fetch_next(tasks[t], TotalRows(partitions),
                                                Len(measurements))]
    /\ UNCHANGED <<tables, type_table, partitions, measurement_types,
                   measurements, started, init_pc, checked_out>>
    /\ Untouched

\* the statement the body is at raises; the exception reaches the wrapper
BodyFail(t) ==
    /\ tasks[t].pc = "body"
    /\ tasks' = [tasks EXCEPT ![t].pc = "release", ![t].scan = 0, ![t].snap = 0]
    /\ init_pc' = IF t = 0 THEN "raised" ELSE init_pc
    /\ UNCHANGED <<tables, type_table, partitions, measurement_types,
                   measurements, started, checked_out>>
    /\ Untouched

\* finally: conn is not None, await self.pool.release(conn); then the wrapper
\* returns or raises again
Release(t) ==
    /\ tasks[t].pc = "release"
    /\ checked_out' = pool_release(checked_out)
    /\ IF tasks[t].held > 1
       THEN /\ tasks' = [tasks EXCEPT ![t].held = @ - 1]
            /\ UNCHANGED <<init_pc, started, measurements>>
       ELSE Leave(t, FALSE)
    /\ UNCHANGED <<tables, type_table, partitions, measurement_types>>
    /\ Untouched

NextConc ==
    \/ CallInit
    \/ \E t \in Handlers, n \in Names : CallInsert(t, n)
    \/ \E t \in Handlers : CallQuery(t)
    \/ \E t \in Tasks : Acquire(t)
    \/ \E t \in Tasks : AcquireFail(t)
    \/ BodyDropTables
    \/ BodyInitTables
    \/ \E t \in Handlers : BodyInsert(t)
    \/ \E t \in Handlers : BodyFetch(t)
    \/ \E t \in Tasks : BodyFail(t)
    \/ \E t \in Tasks : Release(t)

SpecConc == InitConc /\ [][NextConc]_vars

\* the scheduling the liveness of a task rests on: the pool serves waiting
\* acquirers in turn (asyncpg queues them first in, first out), so a task
\* that can acquire again and again does acquire; a statement of a body and
\* a release end; init_app calls init_tables once drop_tables has returned
Fairness ==
    /\ \A t \in Tasks : SF_vars(Acquire(t))
    /\ \A t \in Handlers : WF_vars(BodyInsert(t) \/ BodyFetch(t))
    /\ WF_vars(BodyDropTables \/ BodyInitTables)
    /\ \A t \in Tasks : WF_vars(Release(t))
    /\ WF_vars(CallInit)

SpecConcFair == InitContended /\ [][NextConc]_vars /\ Fairness

----------------------------------------------------------------------------
(* Properties.  In Spec they are stated of the request being answered      *)
(* (last) and of the store it left; in SpecValidate of v_data, v_result.   *)

Configured(t) == t \in Range(measurements)

\* an entry as the interface describes it: exactly 'time' (an integer) and
\* 'value' (an integer or a float)
WellFormed(e) ==
    /\ e.isdict
    /\ e.keys = {"time", "value"}
    /\ e.time.k = "int"
    /\ e.value.k \in {"int", "float"}

\* an entry that is no record, lacks a key, or has a 'time' or 'value' of
\* the wrong kind (a string, null, a fractional time)
Invalid(e) ==
    \/ ~e.isdict
    \/ "time" \notin e.keys
    \/ "value" \notin e.keys
    \/ e.time.k \in {"str", "float", "NoneType"}
    \/ e.value.k \in {"str", "NoneType"}

\* the number a JSON value denotes, as <<integer part, plus one half>>
NumberOf(x) == [n |-> x.n, half |-> x.half]
AsSubmitted(e) == [time |-> e.time.n, value |-> NumberOf(e.value)]
\* the same with the value rounded to the nearest double
AsDouble(e) ==
    [time |-> e.time.n,
     value |-> [n |-> IF e.value.k = "float" THEN e.value.n ELSE Round53(e.value.n),
                half |-> e.value.half]]
\* a float, or an integer of at most 2^53
ExactDouble(x) == x.k = "float" \/ BigLeq(x.n, <<2^(Float8Mantissa - 30), 0>>)

\* the i-th element of a 200 answer is for a type whose accepted entries are
\* all well-formed and all inside [from_time, to_time]
CoveringGet(i) ==
    /\ last.op = "GET"
    /\ last.status = 200
    /\ i \in DOMAIN last.result
    /\ last.result[i].name \in DOMAIN submitted
    /\ \A e \in DOMAIN submitted[last.result[i].name] :
          /\ WellFormed(e)
          /\ BigLeq(last.from_time.n, e.time.n)
          /\ BigLeq(e.time.n, last.to_time.n)

\* C1 as stated: a GET covering the times of all entries accepted for T since
\* the store was initialized returns exactly those entries, time and value
C1_RoundTripExact ==
    \A i \in DOMAIN last.result :
        CoveringGet(i) =>
            last.result[i].rows = MapBag(AsSubmitted, submitted[last.result[i].name])

\* C1 amended: the GET returns one entry per accepted entry (duplicates kept),
\* each with the submitted time and the submitted value rounded to the nearest
\* double; the values are the submitted ones when all are floats or integers
\* of at most 2^53
C1_RoundTripDouble ==
    \A i \in DOMAIN last.result :
        CoveringGet(i) =>
            LET sub == submitted[last.result[i].name]
                rows == last.result[i].rows
            IN  /\ rows = MapBag(AsDouble, sub)
                /\ BagCardinality(rows) = BagCardinality(sub)
                /\ (\A e \in DOMAIN sub : ExactDouble(e.value))
                       => rows = MapBag(AsSubmitted, sub)

\* two identical entries were accepted and the covering GET returns both
C1_Witness ==
    \E i \in DOMAIN last.result :
        /\ CoveringGet(i)
        /\ \E r \in DOMAIN last.result[i].rows : last.result[i].rows[r] = 2

\* C2: a POST to a type that is not configured is answered 400 "Unknown
\* measurement type <type>." whatever the body, and the gateway is not called
C2_UnknownTypePost ==
    (last.op = "POST" /\ ~Configured(last.type)) =>
        /\ last.status = 400
        /\ last.error = [msg |-> "Unknown measurement type {}.", arg |-> <<last.type>>]
        /\ last.calls = <<>>
        /\ last.acquired = 0
        /\ partitions = last.before

C2_Witness ==
    /\ last.op = "POST"
    /\ ~Configured(last.type)
    /\ last.body = BodyValues(VList(<<EntryFloat>>))
    /\ last.status = 400

\* the body is not JSON, is an object without 'values', or its 'values' list
\* holds an invalid entry
RejectedBody(b) ==
    \/ b.k = "malformed"
    \/ b.k = "object" /\ ~b.has_values
    \/ /\ b.k = "object" /\ b.has_values /\ b.values.k = "list"
       /\ \E i \in DOMAIN b.values.items : Invalid(b.values.items[i])

\* C3: a POST with such a body is answered 400 before any gateway call: no
\* connection is acquired and no row of the batch is written
C3_ValidationBeforeStorage ==
    (last.op = "POST" /\ RejectedBody(last.body)) =>
        /\ last.status = 400
        /\ last.calls = <<>>
        /\ last.acquired = 0
        /\ partitions = last.before

\* a valid entry followed by an invalid one, for a configured type
C3_Witness ==
    /\ last.op = "POST"
    /\ Configured(last.type)
    /\ last.body = BodyValues(VList(<<EntryFloat, EntryBadValue>>))
    /\ last.status = 400
    /\ last.calls = <<>>

\* C4 as stated: when the 'values' of a POST to a configured type fail
\* validation, the answer is 400 with a message of the validation (naming the
\* entry and the field), not the fixed message of a malformed body
C4_ValidationMessage ==
    (last.op = "POST" /\ last.validation.field # "none") =>
        /\ last.status = 400
        /\ last.error.msg # "Invalid JSON or missing 'values' field."

\* the first position (from 0) of a list at which Bad holds, -1 if none
FirstIndex(items, Bad(_)) ==
    IF \E i \in DOMAIN items : Bad(items[i])
    THEN (CHOOSE i \in DOMAIN items :
              Bad(items[i]) /\ \A j \in 1..(i - 1) : ~Bad(items[j])) - 1
    ELSE -1

\* C5 as stated: a list is accepted iff every entry is well-formed (exactly
\* the two keys, an integer time, an integer or float value); a rejection
\* names the first entry that is not
C5_ExactKeys ==
    (v_result # Pending /\ v_data.k = "list") =>
        LET NotWellFormed(e) == ~WellFormed(e)
        IN  /\ v_result.exc = "None" <=> \A i \in DOMAIN v_data.items :
                                             WellFormed(v_data.items[i])
            /\ v_result.idx = FirstIndex(v_data.items, NotWellFormed)

\* what the validation does accept: a record with at least the keys 'time'
\* and 'value', time an integer or a boolean, value an integer, a float or a
\* boolean
Accepted(e) ==
    /\ e.isdict
    /\ {"time", "value"} \subseteq e.keys
    /\ e.time.k \in {"int", "bool"}
    /\ e.value.k \in {"int", "float", "bool"}

\* C5 amended: a list is accepted iff every entry is a record with at least
\* the keys 'time' and 'value', time an integer or boolean and value an
\* integer, float or boolean (extra keys are accepted); the empty list is
\* accepted; a rejection names the first entry that is not such a record
C5_AtLeastKeys ==
    (v_result # Pending /\ v_data.k = "list") =>
        LET NotAccepted(e) == ~Accepted(e)
        IN  /\ v_result.exc \in {"None", "ValidationError"}
            /\ v_result.exc = "None" <=> \A i \in DOMAIN v_data.items :
                                             Accepted(v_data.items[i])
            /\ v_result.idx = FirstIndex(v_data.items, NotAccepted)
            /\ v_data.items = <<>> => v_result.exc = "None"

\* an entry with an extra key passes and the entry after it is rejected
C5_Witness ==
    /\ v_data.k = "list"
    /\ Len(v_data.items) = 2
    /\ "extra" \in v_data.items[1].keys
    /\ v_result.exc = "ValidationError"
    /\ v_result.idx = 1
    /\ v_result.field = "value"

\* the input errors of a client that C6 lists
ClientError ==
    \/ /\ last.op = "POST"
       /\ \/ last.body.k \in {"malformed", "nonobject"}
          \/ ~last.body.has_values
          \/ last.body.values.k # "list"
          \/ \E i \in DOMAIN last.body.values.items :
                 Invalid(last.body.values.items[i])
    \/ /\ last.op = "GET"
       /\ \/ last.from_time.k # "int"
          \/ last.to_time.k # "int"
          \/ ~BigLt(last.from_time.n, last.to_time.n)
          \/ last.names = <<>>
          \/ \E i \in DOMAIN last.names : ~Configured(last.names[i])

\* C6 as stated: every such request is answered 400, and no exception
\* leaves the handler
C6_ClientErrorIs400 ==
    ClientError => (last.status = 400 /\ last.exc = "None")

IntegerTimes == last.from_time.k = "int" /\ last.to_time.k = "int"

\* C7 as stated: a GET with integer from_time >= to_time is answered 400
\* "'from_time' has to be smaller than 'to_time'." whichever names it asks
\* for, none included, and the gateway is not called
C7_EmptyRange ==
    (last.op = "GET" /\ IntegerTimes /\ ~BigLt(last.from_time.n, last.to_time.n)) =>
        /\ last.status = 400
        /\ last.error = [msg |-> "'from_time' has to be smaller than 'to_time'.",
                         arg |-> <<>>]
        /\ last.calls = <<>>

\* C8 as stated: a GET with integer from_time < to_time and no 'measurement'
\* parameter is answered 400 "At least one 'measurement' must be provided."
\* and the gateway is not called
C8_NoMeasurement ==
    (/\ last.op = "GET" /\ IntegerTimes
     /\ BigLt(last.from_time.n, last.to_time.n)
     /\ last.names = <<>>) =>
        /\ last.status = 400
        /\ last.error = [msg |-> "At least one 'measurement' must be provided.",
                         arg |-> <<>>]
        /\ last.calls = <<>>

UnknownRequested == {last.names[i] : i \in DOMAIN last.names} \ Range(measurements)

\* C9: a GET with integer from_time < to_time that asks for at least one
\* name that is not configured is answered 400, the error lists exactly the
\* requested names that are not configured, and the gateway is not called
C9_UnknownNamesListed ==
    (/\ last.op = "GET" /\ IntegerTimes
     /\ BigLt(last.from_time.n, last.to_time.n)
     /\ UnknownRequested # {}) =>
        /\ last.status = 400
        /\ last.error.msg = "Unknown measurement type(s): {}"
        /\ Range(last.error.arg) = UnknownRequested
        /\ last.calls = <<>>
        /\ last.acquired = 0

\* a configured and an unknown name are requested together
C9_Witness ==
    /\ last.op = "GET"
    /\ last.status = 400
    /\ Len(last.names) = 2
    /\ Configured(last.names[1])
    /\ ~Configured(last.names[2])
    /\ last.error.arg = <<last.names[2]>>

\* C10: a POST of an empty 'values' list to a configured type leaves the rows
\* of every type as they were; the gateway is called once, and unless the
\* store itself fails the empty batch is no error and the answer is 204
C10_EmptyBatch ==
    (/\ last.op = "POST" /\ Configured(last.type)
     /\ last.body = BodyValues(VList(<<>>))) =>
        /\ partitions = last.before
        /\ last.calls = <<"insert_batch_measurements_name">>
        /\ last.status \in {204, 500}
        /\ last.status = 204 <=> last.fault = "none"
        /\ last.status = 204 => last.error = NoError

\* the empty batch is answered 204 while the store holds rows
C10_Witness ==
    /\ last.op = "POST"
    /\ Configured(last.type)
    /\ last.body = BodyValues(VList(<<>>))
    /\ last.status = 204
    /\ TotalRows(partitions) = MaxRows
    /\ partitions = last.before

----------------------------------------------------------------------------
(* Properties of Database.init, stated in SpecInit of the store and the    *)
(* mapping the running or the last init left.                              *)

Distinct(names) ==
    \A i, j \in DOMAIN names : names[i] = names[j] => i = j

\* C11: after init of a list of distinct names the k-th name has id k in
\* self.measurement_types, the type table holds exactly the rows (k, k-th
\* name), the partition of the k-th name is bound to k, and an init of the
\* same list as the one before it gives the mapping it gave before
C11_DenseIds ==
    (started /\ Distinct(measurements)) =>
        /\ DOMAIN measurement_types = Range(measurements)
        /\ \A k \in DOMAIN measurements :
              /\ measurement_types[measurements[k]] = k
              /\ measurements[k] \in DOMAIN partitions
              /\ partitions[measurements[k]].id = k
        /\ type_table = {[id |-> k, name |-> measurements[k]] :
                             k \in DOMAIN measurements}
        /\ prev_types.same => prev_types.types = measurement_types

\* a list of MaxTypes distinct names is initialized a second time in a row,
\* over rows of the first run
C11_Witness ==
    /\ started
    /\ Distinct(measurements)
    /\ Len(measurements) = MaxTypes
    /\ prev_types.same
    /\ discarded > 0
    /\ measurement_types[measurements[MaxTypes]] = MaxTypes

\* C12: an init whose list holds a name twice does no schema work, builds no
\* mapping and does not start the server
C12_DuplicateRejected ==
    ~Distinct(init_names) =>
        /\ schema_log = <<>>
        /\ measurement_types = NoTypes
        /\ ~started

\* C13: init runs drop_tables, then creates the type table, fills it, creates
\* the parent and the partitions, in this order; once the drop has run no
\* partition is left until the new ones are created; and after init has
\* returned the type table is the mapping of its list, there is exactly one
\* partition per name of the list, and the rows of a partition (those a
\* query over all times returns) are the ones written since, none from before
C13_FullReset ==
    /\ Len(schema_log) <= Len(SchemaOrder)
    /\ \A i \in DOMAIN schema_log : schema_log[i] = SchemaOrder[i]
    /\ (schema_log # <<>> /\ ~started) => partitions = NoPartitions
    /\ started =>
          /\ schema_log = SchemaOrder
          /\ tables = {"measurement_type", "measurement"}
          /\ type_table = {[id |-> measurement_types[n], name |-> n] :
                               n \in DOMAIN measurement_types}
          /\ DOMAIN partitions = Range(measurements)
          /\ \A n \in DOMAIN partitions :
                /\ partitions[n].rows = MapBag(AsDouble, submitted[n])
                /\ FetchRows(n, Int4Min, Int4Max) = partitions[n].rows

\* init has returned over a store that held MaxRows rows, for another list
\* than the one before, and every partition is empty
C13_Witness ==
    /\ started
    /\ init_pc = "idle"
    /\ discarded = MaxRows
    /\ ~prev_types.same
    /\ Len(measurements) = MaxTypes
    /\ \A n \in DOMAIN partitions : partitions[n].rows = EmptyBag

----------------------------------------------------------------------------
(* Properties of the gateway calls behind a request, stated in Spec.       *)

\* the rows of bag B whose time is in the window of the GET
InWindow(B) ==
    [e \in {x \in DOMAIN B : /\ BigLeq(last.from_time.n, x.time)
                             /\ BigLeq(x.time, last.to_time.n)} |-> B[e]]

\* C15: the answer of a successful query has one element per requested name,
\* in request order and with repeated names kept; the rows of the i-th
\* element are the rows stored for the i-th name whose time lies in
\* [from_time, to_time], both ends included, which are the entries accepted
\* for that name (as doubles) and of no other type; no such row, no rows
C15_QueryResult ==
    (last.op = "GET" /\ last.status = 200) =>
        /\ Len(last.result) = Len(last.names)
        /\ \A i \in DOMAIN last.names :
              LET name == last.names[i]
              IN  /\ last.result[i].name = name
                  /\ last.result[i].rows = InWindow(partitions[name].rows)
                  /\ last.result[i].rows =
                         InWindow(MapBag(AsDouble, submitted[name]))
                  /\ (\A e \in DOMAIN submitted[name] :
                          \/ BigLt(e.time.n, last.from_time.n)
                          \/ BigLt(last.to_time.n, e.time.n))
                        => last.result[i].rows = EmptyBag

\* two different types are queried; the first has a row at each end of the
\* window, the second has a row outside of it only
C15_Witness ==
    /\ last.op = "GET"
    /\ last.status = 200
    /\ Len(last.names) = 2
    /\ last.names[1] # last.names[2]
    /\ BagCardinality(last.result[1].rows) = 2
    /\ \E r \in DOMAIN last.result[1].rows : r.time = last.from_time.n
    /\ \E r \in DOMAIN last.result[1].rows : r.time = last.to_time.n
    /\ last.result[2].rows = EmptyBag

\* C15, repeated names: the same name asked twice is answered twice
C15_WitnessRepeated ==
    /\ last.op = "GET"
    /\ last.status = 200
    /\ Len(last.names) = 2
    /\ last.names[1] = last.names[2]
    /\ last.result[1].rows # EmptyBag

\* the message of the exception a failing store call raises
FaultMessage(fault) ==
    IF fault = "acquire" THEN "PoolError" ELSE "PostgresError"

\* C16: a request calls the gateway at most once; when that call fails the
\* answer is 500 with the message of the exception as "error", nothing is
\* written and nothing is tried again; 204 and 200 are answered only when the
\* one call succeeded
C16_FaultIs500 ==
    last.op \in {"POST", "GET"} =>
        /\ Len(last.calls) <= 1
        /\ (last.calls # <<>> /\ last.fault # "none") =>
              /\ last.status = 500
              /\ last.error = [msg |-> FaultMessage(last.fault), arg |-> <<>>]
              /\ partitions = last.before
              /\ last.result = <<>>
        /\ last.status \in {200, 204} =>
              /\ Len(last.calls) = 1
              /\ last.fault = "none"
              /\ last.error = NoError
              /\ last.acquired = 1 /\ last.released = 1

\* a POST of a valid batch fails in the store over existing rows
C16_Witness ==
    /\ last.op = "POST"
    /\ last.fault = "execute"
    /\ last.status = 500
    /\ last.error.msg = "PostgresError"
    /\ last.body.has_values
    /\ last.body.values.items # <<>>
    /\ TotalRows(partitions) > 0
    /\ partitions = last.before

----------------------------------------------------------------------------
(* Properties of with_connection and the pool, stated in SpecConc of the   *)
(* tasks in flight.                                                        *)

HeldBy == [t \in Tasks |-> tasks[t].held]
InBody(t) == tasks[t].pc \in {"body", "release"}
IsQuery(t) == tasks[t].op = "get_measurements"

\* C14: the connections checked out of the pool are the ones the tasks in
\* flight hold; a task holds none before its acquire has returned and none
\* once the wrapper is left, whether the body returned or raised or the
\* acquire itself raised, and it holds exactly the one it acquired while the
\* body and the finally run; with no gateway call in flight none is out
C14_ReleaseOnce ==
    /\ checked_out = SumOver(HeldBy, Tasks)
    /\ checked_out <= pool.max_size
    /\ \A t \in Tasks :
          /\ tasks[t].pc \in {"idle", "acquire"} =>
                tasks[t].held = 0 /\ tasks[t].acquired = 0
          /\ InBody(t) => tasks[t].held = 1 /\ tasks[t].acquired = 1
    /\ (\A t \in Tasks : tasks[t].pc = "idle") => checked_out = 0

\* the server runs, MaxRows rows were written by calls that have returned,
\* and no call is in flight
C14_Witness ==
    /\ started
    /\ TotalRows(partitions) = MaxRows
    /\ \A t \in Tasks : tasks[t].pc = "idle"
    /\ checked_out = 0

\* C17 as stated: every scan of a query has its own acquisition, so a query
\* at its second or a later scan has acquired as often as it has scanned
C17_ScanPerAcquisition ==
    \A t \in Handlers :
        (IsQuery(t) /\ tasks[t].pc = "body") => tasks[t].acquired = tasks[t].scan

\* C17: a query over several types acquires one connection for the whole
\* call; it holds this same connection at every scan and gives it back once,
\* after the last scan or when a scan raises
C17_OneConnectionPerQuery ==
    \A t \in Handlers :
        (IsQuery(t) /\ InBody(t)) =>
            /\ tasks[t].held = 1
            /\ tasks[t].acquired = 1
            /\ tasks[t].pc = "body" => tasks[t].scan \in 1..Len(measurements)

\* a query is between its first and its second scan, on its connection, and
\* the store holds a row that was written after the first scan: an insert of
\* another task went in between
C17_Witness ==
    \E t \in Handlers :
        /\ IsQuery(t)
        /\ tasks[t].pc = "body"
        /\ tasks[t].scan = 2
        /\ tasks[t].held = 1
        /\ tasks[t].snap < TotalRows(partitions)

\* C18: no task holds more than one connection or waits for one while it
\* holds one, and under the pool's fair scheduling every call in flight
\* (init_app's drop_tables and init_tables, a handler's insert or query)
\* gets past its acquire and is left again, also when more calls compete
\* than the pool has connections: a task is outside of a call again and again
C18_NoPoolDeadlock ==
    /\ [](\A t \in Tasks : /\ tasks[t].held <= 1
                            /\ tasks[t].pc = "acquire" => tasks[t].held = 0)
    /\ \A t \in Tasks : []<>(tasks[t].pc = "idle")

\* every connection of the pool is out and a further handler waits for one
C18_Witness ==
    /\ started
    /\ checked_out = pool.max_size
    /\ pool.max_size = Len(measurements) + 2
    /\ \E t \in Handlers : tasks[t].pc = "acquire"

====
